---------------------------- MODULE Spec2Model ----------------------------
(***************************************************************************)
(* State-machine model of the SecretVoteBox contract (the version with     *)
(* finalization: createPoll, vote, endPoll, requestFinalize and            *)
(* decryptionCallback).  Every public function is one atomic action, as    *)
(* the ledger serializes transactions.  A reverted call changes nothing    *)
(* but lastCall, the record of the outcome the caller observes.            *)
(*                                                                         *)
(* Ciphertext handles are modelled by what the FHE library guarantees for  *)
(* them: the plaintext they encrypt (val) and the persistent access        *)
(* control list of the handle (acl).  The contract never reads val.       *)
(***************************************************************************)
EXTENDS Integers, Sequences, FiniteSets, TLC

\* ------------------------------------------------------------------ bounds
MaxPolls    == 1   \* polls that may be created (cap on pollCount)
MaxAccounts == 2   \* externally owned accounts that send transactions
MaxOptions  == 2   \* longest option list submitted to createPoll
MaxTime     == 2   \* last value of block.timestamp
MaxRequests == 2   \* decryption requests the oracle accepts

\* --------------------------------------------------------------- constants
Uint16Mod == 65536
ByteMod   == 256

\* uint32(x): x modulo 2^32, computed on 16-bit limbs
Uint32(x) == ((x \div Uint16Mod) % Uint16Mod) * Uint16Mod + (x % Uint16Mod)

ZeroAddr     == 0
Accounts     == 1..MaxAccounts
ContractAddr == MaxAccounts + 1      \* address(this)
OracleAddr   == MaxAccounts + 2      \* the decryption oracle / relayer

PollIds    == 0..MaxPolls            \* Spec never creates MaxPolls itself
RequestIds == 0..MaxRequests         \* MaxRequests itself is never issued
OptionIdx  == 0..(MaxOptions - 1)

Titles       == {"", "Poll"}
Descriptions == {"desc"}
OptionNames  == <<"Yes", "No", "Maybe", "Other", "None">>
\* the option lists a caller may submit: every prefix of OptionNames
OptionLists  == { SubSeq(OptionNames, 1, n) : n \in 0..MaxOptions }
ExpiryTimes  == 0..MaxTime

\* clear values an arbitrary caller puts in a callback blob
ForgedValues == {258}

\* ------------------------------------------------------------------- state
VARIABLES
    now,              \* block.timestamp
    pollCount,        \* uint256 public pollCount
    polls,            \* mapping(uint256 => Poll) polls
    clearVoteCounts,  \* mapping(uint256 => uint32[]) _clearVoteCounts
    requestToPoll,    \* mapping(uint256 => uint256) _requestToPoll
    counterRequest,   \* next request id handed out by FHE.requestDecryption
    oracleRequests,   \* oracle side: request id -> plaintexts of the handles
    events,           \* the events emitted so far (as a set)
    lastCall,         \* outcome of the most recent transaction
    ballots           \* history: the plaintext each voter put in the ballot

\* the state of one browser session of the web front end
VARIABLES
    VITE_CONTRACT_ADDRESS,  \* import.meta.env.VITE_CONTRACT_ADDRESS
    fhevmInstance,          \* fhevm.ts: let fhevmInstance
    isSDKInitialized,       \* fhevm.ts: let isSDKInitialized
    isMockInstance,         \* fhevm.ts: let isMockInstance
    uiCall                  \* what the most recent page handler did

uiVars == <<VITE_CONTRACT_ADDRESS, fhevmInstance, isSDKInitialized,
            isMockInstance, uiCall>>

vars == <<now, pollCount, polls, clearVoteCounts, requestToPoll,
          counterRequest, oracleRequests, events, lastCall, ballots,
          VITE_CONTRACT_ADDRESS, fhevmInstance, isSDKInitialized,
          isMockInstance, uiCall>>

\* ----------------------------------------------------- ciphertext handles
ZeroHandle == [val |-> 0, acl |-> {}]          \* uninitialised euint32

\* FHE.asEuint32(v): trivial encryption of a clear value
asEuint32(v) == [val |-> Uint32(v), acl |-> {}]

\* FHE.eq on two encrypted values: the encrypted boolean
eq(a, b) == (a.val = b.val)

\* FHE.select(cond, x, y)
select(c, x, y) == IF c THEN x ELSE y

\* FHE.add: wrapping 32-bit addition, the result is a fresh handle
add(a, b) == [val |-> Uint32(a.val + b.val), acl |-> {}]

\* FHE.allow(handle, who) / FHE.allowThis(handle)
allow(h, who) == [h EXCEPT !.acl = @ \cup {who}]
allowThis(h)  == allow(h, ContractAddr)

\* ------------------------------------------------------------ poll record
\* the value of polls[id] for an id that was never written
EmptyPoll ==
    [title |-> "", description |-> "", options |-> <<>>, expireAt |-> 0,
     creator |-> ZeroAddr, isActive |-> FALSE,
     encryptedVoteCounts |-> [i \in OptionIdx |-> ZeroHandle],
     hasVoted |-> {}, finalized |-> FALSE]

\* the entry of ballots for an address whose vote was not recorded
NoBallot == 0 - 1

NoCall == [op |-> "none", sender |-> ZeroAddr, result |-> "ok"]

Call(op, sender, result) ==
    [op |-> op, sender |-> sender, result |-> result]

\* fhevm.ts before the first initializeFHEVM: fhevmInstance = null
NoInstance == [kind |-> "none", chainId |-> 0, network |-> ""]

\* no page handler has run yet
NoUICall == [op |-> "none"]

Init ==
    /\ VITE_CONTRACT_ADDRESS = ""
    /\ fhevmInstance = NoInstance
    /\ isSDKInitialized = FALSE
    /\ isMockInstance = FALSE
    /\ uiCall = NoUICall
    /\ now = 0
    /\ pollCount = 0
    /\ polls = [p \in PollIds |-> EmptyPoll]
    /\ clearVoteCounts = [p \in PollIds |-> <<>>]
    /\ requestToPoll = [r \in RequestIds |-> 0]
    /\ counterRequest = 0
    /\ oracleRequests = [r \in RequestIds |-> <<>>]
    /\ events = {}
    /\ lastCall = NoCall
    /\ ballots = [p \in PollIds |-> [a \in Accounts |-> NoBallot]]

\* ------------------------------------------------------------- createPoll
\* createPoll without the require on the number of options
createPollCheck_NoOptions(title, options, expireAt) ==
    IF title = "" THEN "Title cannot be empty"
    ELSE IF ~(expireAt > now) THEN "Expiration must be in the future"
    ELSE "ok"

\* the revert reason of createPoll, "ok" when every require passes
createPollCheck(title, options, expireAt) ==
    IF title = "" THEN "Title cannot be empty"
    ELSE IF Len(options) < 2 THEN "Must have at least 2 options"
    ELSE IF ~(expireAt > now) THEN "Expiration must be in the future"
    ELSE "ok"

\* the counters of a new poll: an encrypted zero, allowed to the contract
createPollCounts(options, old) ==
    [i \in OptionIdx |->
        IF i < Len(options) THEN allowThis(asEuint32(0)) ELSE old[i]]

\* createPoll with pollId = pollCount and the increment forgotten
createPoll_NoIncrement(sender, title, description, options, expireAt) ==
    LET res == createPollCheck(title, options, expireAt)
        pollId == pollCount
    IN  /\ lastCall' = Call("createPoll", sender, res)
        /\ IF res = "ok"
           THEN /\ pollCount' = pollCount
                /\ polls' = [polls EXCEPT ![pollId] =
                       [@ EXCEPT !.title = title,
                                 !.description = description,
                                 !.options = options,
                                 !.expireAt = expireAt,
                                 !.creator = sender,
                                 !.isActive = TRUE,
                                 !.encryptedVoteCounts =
                                     createPollCounts(options, @)]]
                /\ events' = events \cup
                       {[name |-> "PollCreated", pollId |-> pollId,
                         arg |-> sender]}
                /\ UNCHANGED <<now, clearVoteCounts, requestToPoll,
                               counterRequest, oracleRequests>>
           ELSE UNCHANGED <<now, pollCount, polls, clearVoteCounts,
                            requestToPoll, counterRequest, oracleRequests,
                            events>>

\* createPoll taking the id after the increment (pollId = ++pollCount)
createPoll_PreIncrement(sender, title, description, options, expireAt) ==
    LET res == createPollCheck(title, options, expireAt)
        pollId == pollCount + 1
    IN  /\ lastCall' = Call("createPoll", sender, res)
        /\ IF res = "ok"
           THEN /\ pollCount' = pollCount + 1
                /\ polls' = [polls EXCEPT ![pollId] =
                       [@ EXCEPT !.title = title,
                                 !.description = description,
                                 !.options = options,
                                 !.expireAt = expireAt,
                                 !.creator = sender,
                                 !.isActive = TRUE,
                                 !.encryptedVoteCounts =
                                     createPollCounts(options, @)]]
                /\ events' = events \cup
                       {[name |-> "PollCreated", pollId |-> pollId,
                         arg |-> sender]}
                /\ UNCHANGED <<now, clearVoteCounts, requestToPoll,
                               counterRequest, oracleRequests>>
           ELSE UNCHANGED <<now, pollCount, polls, clearVoteCounts,
                            requestToPoll, counterRequest, oracleRequests,
                            events>>

createPoll(sender, title, description, options, expireAt) ==
    LET res == createPollCheck(title, options, expireAt)
        pollId == pollCount
    IN  /\ lastCall' = Call("createPoll", sender, res)
        /\ IF res = "ok"
           THEN /\ pollCount' = pollCount + 1
                /\ polls' = [polls EXCEPT ![pollId] =
                       [@ EXCEPT !.title = title,
                                 !.description = description,
                                 !.options = options,
                                 !.expireAt = expireAt,
                                 !.creator = sender,
                                 !.isActive = TRUE,
                                 !.encryptedVoteCounts =
                                     createPollCounts(options, @)]]
                /\ events' = events \cup
                       {[name |-> "PollCreated", pollId |-> pollId,
                         arg |-> sender]}
                /\ UNCHANGED <<now, clearVoteCounts, requestToPoll,
                               counterRequest, oracleRequests>>
           ELSE UNCHANGED <<now, pollCount, polls, clearVoteCounts,
                            requestToPoll, counterRequest, oracleRequests,
                            events>>

\* ------------------------------------------------------------------- vote
\* vote without the one-vote-per-address require
voteCheck_NoAlreadyVoted(sender, pollId, proofOk) ==
    LET poll == polls[pollId]
    IN  IF ~poll.isActive THEN "Poll does not exist or is not active"
        ELSE IF ~(now < poll.expireAt) THEN "Poll has expired"
        ELSE IF ~proofOk THEN "Invalid proof"
        ELSE "ok"

\* vote without the two lifecycle requires (active, not expired)
voteCheck_NoLifecycle(sender, pollId, proofOk) ==
    LET poll == polls[pollId]
    IN  IF sender \in poll.hasVoted THEN "Already voted"
        ELSE IF ~proofOk THEN "Invalid proof"
        ELSE "ok"

\* vote without the expiry require
voteCheck_NoExpiry(sender, pollId, proofOk) ==
    LET poll == polls[pollId]
    IN  IF ~poll.isActive THEN "Poll does not exist or is not active"
        ELSE IF sender \in poll.hasVoted THEN "Already voted"
        ELSE IF ~proofOk THEN "Invalid proof"
        ELSE "ok"

\* vote accepting a ballot in the very second the poll expires
voteCheck_ExpiryInclusive(sender, pollId, proofOk) ==
    LET poll == polls[pollId]
    IN  IF ~poll.isActive THEN "Poll does not exist or is not active"
        ELSE IF ~(now <= poll.expireAt) THEN "Poll has expired"
        ELSE IF sender \in poll.hasVoted THEN "Already voted"
        ELSE IF ~proofOk THEN "Invalid proof"
        ELSE "ok"

\* vote without the require on isActive
voteCheck_NoActive(sender, pollId, proofOk) ==
    LET poll == polls[pollId]
    IN  IF ~(now < poll.expireAt) THEN "Poll has expired"
        ELSE IF sender \in poll.hasVoted THEN "Already voted"
        ELSE IF ~proofOk THEN "Invalid proof"
        ELSE "ok"

\* vote testing hasVoted before the state of the poll
voteCheck_VotedFirst(sender, pollId, proofOk) ==
    LET poll == polls[pollId]
    IN  IF sender \in poll.hasVoted THEN "Already voted"
        ELSE IF ~poll.isActive THEN "Poll does not exist or is not active"
        ELSE IF ~(now < poll.expireAt) THEN "Poll has expired"
        ELSE IF ~proofOk THEN "Invalid proof"
        ELSE "ok"

voteCheck(sender, pollId, proofOk) ==
    LET poll == polls[pollId]
    IN  IF ~poll.isActive THEN "Poll does not exist or is not active"
        ELSE IF ~(now < poll.expireAt) THEN "Poll has expired"
        ELSE IF sender \in poll.hasVoted THEN "Already voted"
        ELSE IF ~proofOk THEN "Invalid proof"
        ELSE "ok"

\* the tally loop with the two branches of the select swapped
voteCounter_SelectSwapped(count, encryptedOptionIndex, i, sender) ==
    LET optionValue   == asEuint32(i)
        isMatch       == eq(encryptedOptionIndex, optionValue)
        voteIncrement == select(isMatch, asEuint32(0), asEuint32(1))
    IN  allow(allowThis(add(count, voteIncrement)), sender)

\* the tally loop authorizing the voter on the chosen counter only
voteCounter_AllowOnMatch(count, encryptedOptionIndex, i, sender) ==
    LET optionValue   == asEuint32(i)
        isMatch       == eq(encryptedOptionIndex, optionValue)
        voteIncrement == select(isMatch, asEuint32(1), asEuint32(0))
    IN  IF isMatch
        THEN allow(allowThis(add(count, voteIncrement)), sender)
        ELSE allowThis(add(count, voteIncrement))

\* the tally loop storing the increment instead of adding it to the counter
voteCounter_Overwrite(count, encryptedOptionIndex, i, sender) ==
    LET optionValue   == asEuint32(i)
        isMatch       == eq(encryptedOptionIndex, optionValue)
        voteIncrement == select(isMatch, asEuint32(1), asEuint32(0))
    IN  allow(allowThis(add(asEuint32(0), voteIncrement)), sender)

\* one iteration of the tally loop for option i
voteCounter(count, encryptedOptionIndex, i, sender) ==
    LET optionValue   == asEuint32(i)
        isMatch       == eq(encryptedOptionIndex, optionValue)
        voteIncrement == select(isMatch, asEuint32(1), asEuint32(0))
    IN  allow(allowThis(add(count, voteIncrement)), sender)

voteCounts(poll, encryptedOptionIndex, sender) ==
    [i \in OptionIdx |->
        IF i < Len(poll.options)
        THEN voteCounter(poll.encryptedVoteCounts[i], encryptedOptionIndex,
                         i, sender)
        ELSE poll.encryptedVoteCounts[i]]

\* vote recording the voter before the proof is validated, the record
\* surviving the rejection of the proof
vote_MarkBeforeProof(sender, pollId, optionIndex, proofOk) ==
    LET res  == voteCheck(sender, pollId, proofOk)
        poll == polls[pollId]
        encryptedOptionIndex == asEuint32(optionIndex)
    IN  /\ lastCall' = Call("vote", sender, res)
        /\ IF res = "ok"
           THEN /\ polls' = [polls EXCEPT ![pollId] =
                       [@ EXCEPT !.encryptedVoteCounts =
                                     voteCounts(poll, encryptedOptionIndex,
                                                sender),
                                 !.hasVoted = @ \cup {sender}]]
                /\ events' = events \cup
                       {[name |-> "VoteCast", pollId |-> pollId,
                         arg |-> sender]}
                /\ UNCHANGED <<now, pollCount, clearVoteCounts,
                               requestToPoll, counterRequest,
                               oracleRequests>>
           ELSE /\ polls' = IF res = "Invalid proof"
                            THEN [polls EXCEPT ![pollId].hasVoted =
                                      @ \cup {sender}]
                            ELSE polls
                /\ UNCHANGED <<now, pollCount, clearVoteCounts,
                               requestToPoll, counterRequest, oracleRequests,
                               events>>

vote(sender, pollId, optionIndex, proofOk) ==
    LET res  == voteCheck(sender, pollId, proofOk)
        poll == polls[pollId]
        encryptedOptionIndex == asEuint32(optionIndex)   \* FHE.fromExternal
    IN  /\ lastCall' = Call("vote", sender, res)
        /\ IF res = "ok"
           THEN /\ polls' = [polls EXCEPT ![pollId] =
                       [@ EXCEPT !.encryptedVoteCounts =
                                     voteCounts(poll, encryptedOptionIndex,
                                                sender),
                                 !.hasVoted = @ \cup {sender}]]
                /\ events' = events \cup
                       {[name |-> "VoteCast", pollId |-> pollId,
                         arg |-> sender]}
                /\ UNCHANGED <<now, pollCount, clearVoteCounts,
                               requestToPoll, counterRequest,
                               oracleRequests>>
           ELSE UNCHANGED <<now, pollCount, polls, clearVoteCounts,
                            requestToPoll, counterRequest, oracleRequests,
                            events>>

\* what vote lets the public see: whether it succeeded, the voters of the
\* poll, the event log, the counter slots that got a new handle and the
\* addresses authorized on each counter
voteView(sender, pollId, optionIndex, proofOk) ==
    LET res    == voteCheck(sender, pollId, proofOk)
        poll   == polls[pollId]
        counts == IF res = "ok"
                  THEN voteCounts(poll, asEuint32(optionIndex), sender)
                  ELSE poll.encryptedVoteCounts
    IN  [result    |-> res,
         hasVoted  |-> IF res = "ok" THEN poll.hasVoted \cup {sender}
                                    ELSE poll.hasVoted,
         events    |-> IF res = "ok"
                       THEN events \cup {[name |-> "VoteCast",
                                          pollId |-> pollId, arg |-> sender]}
                       ELSE events,
         rewritten |-> {i \in OptionIdx :
                           counts[i].acl # poll.encryptedVoteCounts[i].acl},
         acl       |-> [i \in OptionIdx |-> counts[i].acl]]

\* ---------------------------------------------------------------- endPoll
\* endPoll without the expiry require
endPollCheck_NoExpiry(pollId) ==
    LET poll == polls[pollId]
    IN  IF ~poll.isActive THEN "Poll does not exist or already ended"
        ELSE "ok"

endPollCheck(pollId) ==
    LET poll == polls[pollId]
    IN  IF ~poll.isActive THEN "Poll does not exist or already ended"
        ELSE IF ~(now >= poll.expireAt) THEN "Poll has not expired yet"
        ELSE "ok"

endPoll(pollId) ==
    LET res == endPollCheck(pollId)
    IN  /\ lastCall' = Call("endPoll", ZeroAddr, res)
        /\ IF res = "ok"
           THEN /\ polls' = [polls EXCEPT ![pollId].isActive = FALSE]
                /\ events' = events \cup
                       {[name |-> "PollEnded", pollId |-> pollId,
                         arg |-> 0]}
                /\ UNCHANGED <<now, pollCount, clearVoteCounts,
                               requestToPoll, counterRequest,
                               oracleRequests>>
           ELSE UNCHANGED <<now, pollCount, polls, clearVoteCounts,
                            requestToPoll, counterRequest, oracleRequests,
                            events>>

\* -------------------------------------------------------- requestFinalize
requestFinalizeCheck(pollId) ==
    LET poll == polls[pollId]
    IN  IF poll.isActive THEN "Poll still active"
        ELSE IF poll.finalized THEN "Already finalized"
        ELSE "ok"

\* the plaintexts behind the handles cts[0..len-1] handed to the oracle
requestCts(poll) ==
    [i \in 1..Len(poll.options) |-> poll.encryptedVoteCounts[i - 1].val]

requestFinalize(pollId) ==
    LET res       == requestFinalizeCheck(pollId)
        requestId == counterRequest        \* FHE.requestDecryption(...)
    IN  /\ counterRequest < MaxRequests
        /\ lastCall' = Call("requestFinalize", ZeroAddr, res)
        /\ IF res = "ok"
           THEN /\ counterRequest' = counterRequest + 1
                /\ oracleRequests' =
                       [oracleRequests EXCEPT ![requestId] =
                            requestCts(polls[pollId])]
                /\ requestToPoll' = [requestToPoll EXCEPT ![requestId] = pollId]
                /\ events' = events \cup
                       {[name |-> "FinalizeRequested", pollId |-> pollId,
                         arg |-> requestId]}
                /\ UNCHANGED <<now, pollCount, polls, clearVoteCounts>>
           ELSE UNCHANGED <<now, pollCount, polls, clearVoteCounts,
                            requestToPoll, counterRequest, oracleRequests,
                            events>>

\* ----------------------------------------------------- decryptionCallback
\* the four bytes of a uint32, most significant first (packed encoding)
Uint32Bytes(v) ==
    << (v \div (ByteMod * ByteMod * ByteMod)) % ByteMod,
       (v \div (ByteMod * ByteMod)) % ByteMod,
       (v \div ByteMod) % ByteMod,
       v % ByteMod >>

RECURSIVE EncodePacked(_)
EncodePacked(vals) ==
    IF vals = <<>> THEN <<>>
    ELSE Uint32Bytes(Head(vals)) \o EncodePacked(Tail(vals))

\* byte j (from 1) of the memory holding the blob; the zero padding of the
\* last word follows the blob (never read when the length require holds)
ByteAt(cleartexts, j) == IF j <= Len(cleartexts) THEN cleartexts[j] ELSE 0

\* the read with the four bytes taken least significant first
ReadUint32_LittleEndian(cleartexts, i) ==
    ((ByteAt(cleartexts, 4 * i + 4) * ByteMod
        + ByteAt(cleartexts, 4 * i + 3)) * ByteMod
        + ByteAt(cleartexts, 4 * i + 2)) * ByteMod
        + ByteAt(cleartexts, 4 * i + 1)

\* val := shr(224, mload(add(add(cleartexts, 32), mul(i, 4))))
\* the four bytes at offset 4*i, read as a big-endian uint32
ReadUint32(cleartexts, i) ==
    ((ByteAt(cleartexts, 4 * i + 1) * ByteMod
        + ByteAt(cleartexts, 4 * i + 2)) * ByteMod
        + ByteAt(cleartexts, 4 * i + 3)) * ByteMod
        + ByteAt(cleartexts, 4 * i + 4)

\* the callback with the length require counting bytes as if they were values
decryptionCallbackCheck_LenNotScaled(requestId, cleartexts) ==
    LET pollId == requestToPoll[requestId]
        poll   == polls[pollId]
        len    == Len(poll.options)
    IN  IF poll.finalized THEN "Already finalized"
        ELSE IF poll.isActive THEN "Poll still active"
        ELSE IF ~(Len(cleartexts) >= len) THEN "Invalid cleartexts length"
        ELSE "ok"

\* the callback without the require on finalized
decryptionCallbackCheck_NoFinalized(requestId, cleartexts) ==
    LET pollId == requestToPoll[requestId]
        poll   == polls[pollId]
        len    == Len(poll.options)
    IN  IF poll.isActive THEN "Poll still active"
        ELSE IF ~(Len(cleartexts) >= len * 4) THEN "Invalid cleartexts length"
        ELSE "ok"

decryptionCallbackCheck(requestId, cleartexts) ==
    LET pollId == requestToPoll[requestId]
        poll   == polls[pollId]
        len    == Len(poll.options)
    IN  IF poll.finalized THEN "Already finalized"
        ELSE IF poll.isActive THEN "Poll still active"
        ELSE IF ~(Len(cleartexts) >= len * 4) THEN "Invalid cleartexts length"
        ELSE "ok"

\* the blobs an arbitrary caller submits: packed encodings of forged counts,
\* whole or cut short by one byte
ForgedCounts == { [i \in 1..n |-> v] : n \in 0..MaxOptions, v \in ForgedValues }
Blobs ==
    { EncodePacked(c) : c \in ForgedCounts } \cup
    { SubSeq(EncodePacked(c), 1, 4 * Len(c) - 1) :
          c \in { d \in ForgedCounts : Len(d) > 0 } }

\* uint32[] counts parsed from the blob
parseCounts(cleartexts, len) ==
    [i \in 1..len |-> ReadUint32(cleartexts, i - 1)]

\* the callback clearing the encrypted tally once it has published it
decryptionCallback_ClearsTally(sender, requestId, cleartexts) ==
    LET res    == decryptionCallbackCheck(requestId, cleartexts)
        pollId == requestToPoll[requestId]
        len    == Len(polls[pollId].options)
    IN  /\ lastCall' = Call("decryptionCallback", sender, res)
        /\ IF res = "ok"
           THEN /\ clearVoteCounts' =
                       [clearVoteCounts EXCEPT ![pollId] =
                            parseCounts(cleartexts, len)]
                /\ polls' = [polls EXCEPT
                       ![pollId].finalized = TRUE,
                       ![pollId].encryptedVoteCounts =
                           [i \in OptionIdx |-> allowThis(asEuint32(0))]]
                /\ events' = events \cup
                       {[name |-> "ResultsPublished", pollId |-> pollId,
                         arg |-> 0]}
                /\ UNCHANGED <<now, pollCount, requestToPoll,
                               counterRequest, oracleRequests>>
           ELSE UNCHANGED <<now, pollCount, polls, clearVoteCounts,
                            requestToPoll, counterRequest, oracleRequests,
                            events>>

decryptionCallback(sender, requestId, cleartexts) ==
    LET res    == decryptionCallbackCheck(requestId, cleartexts)
        pollId == requestToPoll[requestId]
        len    == Len(polls[pollId].options)
    IN  /\ lastCall' = Call("decryptionCallback", sender, res)
        /\ IF res = "ok"
           THEN /\ clearVoteCounts' =
                       [clearVoteCounts EXCEPT ![pollId] =
                            parseCounts(cleartexts, len)]
                /\ polls' = [polls EXCEPT ![pollId].finalized = TRUE]
                /\ events' = events \cup
                       {[name |-> "ResultsPublished", pollId |-> pollId,
                         arg |-> 0]}
                /\ UNCHANGED <<now, pollCount, requestToPoll,
                               counterRequest, oracleRequests>>
           ELSE UNCHANGED <<now, pollCount, polls, clearVoteCounts,
                            requestToPoll, counterRequest, oracleRequests,
                            events>>

\* the callback taking the request id itself for the poll id
callbackOutcome_ByRequestId(pl, cv, requestId, cleartexts) ==
    LET pollId == requestId
        poll   == pl[pollId]
        len    == Len(poll.options)
        res    == IF poll.finalized THEN "Already finalized"
                  ELSE IF poll.isActive THEN "Poll still active"
                  ELSE IF ~(Len(cleartexts) >= len * 4)
                       THEN "Invalid cleartexts length"
                  ELSE "ok"
    IN  [result |-> res,
         polls  |-> IF res = "ok"
                    THEN [pl EXCEPT ![pollId].finalized = TRUE]
                    ELSE pl,
         clearVoteCounts |->
                    IF res = "ok"
                    THEN [cv EXCEPT ![pollId] = parseCounts(cleartexts, len)]
                    ELSE cv]

\* decryptionCallback as a function of the storage it reads and writes:
\* the polls pl and the published counts cv it starts from, its outcome
\* and the polls and counts it leaves
callbackOutcome(pl, cv, requestId, cleartexts) ==
    LET pollId == requestToPoll[requestId]
        poll   == pl[pollId]
        len    == Len(poll.options)
        res    == IF poll.finalized THEN "Already finalized"
                  ELSE IF poll.isActive THEN "Poll still active"
                  ELSE IF ~(Len(cleartexts) >= len * 4)
                       THEN "Invalid cleartexts length"
                  ELSE "ok"
    IN  [result |-> res,
         polls  |-> IF res = "ok"
                    THEN [pl EXCEPT ![pollId].finalized = TRUE]
                    ELSE pl,
         clearVoteCounts |->
                    IF res = "ok"
                    THEN [cv EXCEPT ![pollId] = parseCounts(cleartexts, len)]
                    ELSE cv]

\* -------------------------------------------------------------- accessors
\* getPoll without the require on isActive
getPoll_NoRequire(pollId) ==
    LET poll == polls[pollId]
    IN  [result |-> "ok",
         value  |-> <<poll.title, poll.description, poll.options,
                      poll.expireAt, poll.creator, poll.isActive>>]

getPoll(pollId) ==
    LET poll == polls[pollId]
    IN  IF ~poll.isActive
        THEN [result |-> "Poll does not exist", value |-> <<>>]
        ELSE [result |-> "ok",
              value  |-> <<poll.title, poll.description, poll.options,
                           poll.expireAt, poll.creator, poll.isActive>>]

getEncryptedVoteCount(pollId, optionIndex) ==
    LET poll == polls[pollId]
    IN  IF ~poll.isActive
        THEN [result |-> "Poll does not exist", value |-> ZeroHandle]
        ELSE IF ~(optionIndex < Len(poll.options))
        THEN [result |-> "Invalid option index", value |-> ZeroHandle]
        ELSE [result |-> "ok", value |-> poll.encryptedVoteCounts[optionIndex]]

getPollCount == pollCount

isFinalized(pollId) == polls[pollId].finalized

\* getClearVoteCounts without the require on finalized
getClearVoteCounts_NoRequire(pollId) ==
    [result |-> "ok", value |-> clearVoteCounts[pollId]]

getClearVoteCounts(pollId) ==
    IF ~polls[pollId].finalized
    THEN [result |-> "Results not available", value |-> <<>>]
    ELSE [result |-> "ok", value |-> clearVoteCounts[pollId]]

\* ------------------------------------------------------------------ clock
\* a new block with a later timestamp
Tick ==
    /\ now < MaxTime
    /\ now' = now + 1
    /\ UNCHANGED <<pollCount, polls, clearVoteCounts, requestToPoll,
                   counterRequest, oracleRequests, events, lastCall, ballots,
                   uiVars>>

\* ------------------------------------------------------------ transitions
CreatePoll ==
    /\ pollCount < MaxPolls
    /\ \E s \in Accounts, t \in Titles, d \in Descriptions,
          o \in OptionLists, e \in ExpiryTimes : createPoll(s, t, d, o, e)
    /\ UNCHANGED <<ballots, uiVars>>

Vote ==
    /\ \E s \in Accounts, p \in PollIds, k \in 0..MaxOptions, ok \in BOOLEAN :
          vote(s, p, k, ok)
    /\ UNCHANGED <<ballots, uiVars>>

EndPoll ==
    /\ \E p \in PollIds : endPoll(p)
    /\ UNCHANGED <<ballots, uiVars>>

RequestFinalize ==
    /\ \E p \in PollIds : requestFinalize(p)
    /\ UNCHANGED <<ballots, uiVars>>

\* any account may call the public callback with any blob
DecryptionCallback ==
    /\ \E s \in Accounts, r \in RequestIds, b \in Blobs :
          decryptionCallback(s, r, b)
    /\ UNCHANGED <<ballots, uiVars>>

\* the oracle answers a request it received with the decrypted values
OracleDeliver ==
    /\ \E r \in 0..(counterRequest - 1) :
          decryptionCallback(OracleAddr, r, EncodePacked(oracleRequests[r]))
    /\ UNCHANGED <<ballots, uiVars>>

Next ==
    \/ CreatePoll
    \/ Vote
    \/ EndPoll
    \/ RequestFinalize
    \/ DecryptionCallback
    \/ OracleDeliver
    \/ Tick

Spec == Init /\ [][Next]_vars

\* ------------------------------------------------ the ledger of many polls
\* Every id of PollIds may be created, every poll expires with the last
\* block, finalization is requested for created polls, the callbacks are
\* the oracle's answers, and the plaintext of every accepted ballot is
\* remembered.
CreateAny ==
    /\ pollCount \in PollIds
    /\ \E s \in Accounts, t \in Titles, d \in Descriptions,
          o \in OptionLists : createPoll(s, t, d, o, MaxTime)
    /\ UNCHANGED <<ballots, uiVars>>

VoteRecorded ==
    \E s \in Accounts, p \in PollIds, k \in 0..MaxOptions, ok \in BOOLEAN :
        /\ vote(s, p, k, ok)
        /\ ballots' = IF voteCheck(s, p, ok) = "ok"
                      THEN [ballots EXCEPT ![p][s] = k]
                      ELSE ballots
        /\ UNCHANGED uiVars

RequestCreated ==
    /\ \E p \in 0..(pollCount - 1) : requestFinalize(p)
    /\ UNCHANGED <<ballots, uiVars>>

NextMany ==
    \/ CreateAny
    \/ VoteRecorded
    \/ EndPoll
    \/ RequestCreated
    \/ OracleDeliver
    \/ Tick

SpecMany == Init /\ [][NextMany]_vars

\* ---------------------------------------------------------------- helpers
Callers == Accounts \cup {OracleAddr}

\* request ids returned by a successful requestFinalize
Issued(r) == r < counterRequest

PollEnded(p) == [name |-> "PollEnded", pollId |-> p, arg |-> 0] \in events

RECURSIVE SumSeq(_)
SumSeq(q) == IF q = <<>> THEN 0 ELSE Head(q) + SumSeq(Tail(q))

\* the plaintext behind counter i of poll p
Plain(p, i) == polls[p].encryptedVoteCounts[i].val

\* ----------------------------------------------------------------- claims

C2_Conservation ==
    \A p \in PollIds :
        (polls[p].finalized /\ ~polls[p].isActive)
            => SumSeq(clearVoteCounts[p]) = Cardinality(polls[p].hasVoted)

\* C3: no poll is active and finalized at the same time.
C3_ActiveNotFinalized ==
    \A p \in PollIds : ~(polls[p].isActive /\ polls[p].finalized)

\* C4: a callback whose request id was never issued by requestFinalize
\* fails and changes no finalized flag and no published counts.
C4_UnknownRequestRejected ==
    [][ \A s \in Callers, r \in RequestIds, b \in Blobs :
          ( /\ lastCall'.op = "decryptionCallback"
            /\ lastCall'.sender = s
            /\ ~Issued(r)
            /\ decryptionCallback(s, r, b) )
          => /\ lastCall'.result # "ok"
             /\ \A p \in PollIds : polls'[p].finalized = polls[p].finalized
             /\ clearVoteCounts' = clearVoteCounts ]_vars

\* C5: once a poll is finalized it stays finalized and its published counts
\* never change, and in every state every callback whose request id maps to
\* a finalized poll (an issued id, a stale one or an unknown one) is
\* rejected with "Already finalized", whatever blob it carries.
C5_FinalizeOnce ==
    /\ [][ \A p \in PollIds :
             polls[p].finalized
             => /\ polls'[p].finalized
                /\ clearVoteCounts'[p] = clearVoteCounts[p] ]_vars
    /\ [](\A r \in RequestIds :
             polls[requestToPoll[r]].finalized
             => \A b \in Blobs \cup {EncodePacked(oracleRequests[r])} :
                   decryptionCallbackCheck(r, b) = "Already finalized")

\* C5 witness: a callback was rejected because its poll, which published
\* counts for its options, was already finalized.
C5_Witness ==
    /\ lastCall.op = "decryptionCallback"
    /\ lastCall.result = "Already finalized"
    /\ \E p \in PollIds : polls[p].finalized /\ Len(clearVoteCounts[p]) >= 2

\* C6: a finalized poll has one published count per option and no count
\* exceeds the number of addresses that voted.
C6_ClearCountsShape ==
    \A p \in PollIds :
        polls[p].finalized
        => /\ Len(clearVoteCounts[p]) = Len(polls[p].options)
           /\ \A i \in 1..Len(clearVoteCounts[p]) :
                 clearVoteCounts[p][i] <= Cardinality(polls[p].hasVoted)

\* C7: a successful vote for an in-range option k adds exactly 1 to the
\* plaintext of counter k, leaves the plaintext of every other counter of
\* the poll unchanged and adds the voter to hasVoted.
C7_VoteIncrementsChosen ==
    [][ \A s \in Accounts, p \in PollIds, k \in 0..MaxOptions :
          ( /\ lastCall' = Call("vote", s, "ok")
            /\ k < Len(polls[p].options)
            /\ vote(s, p, k, TRUE) )
          => /\ polls'[p].encryptedVoteCounts[k].val = Plain(p, k) + 1
             /\ \A i \in OptionIdx \ {k} :
                   polls'[p].encryptedVoteCounts[i].val = Plain(p, i)
             /\ s \notin polls[p].hasVoted
             /\ polls'[p].hasVoted = polls[p].hasVoted \cup {s} ]_vars

\* C7 witness: two votes were accepted on a poll, one for option 0 and one
\* for option 1.
C7_Witness ==
    /\ lastCall.op = "vote"
    /\ lastCall.result = "ok"
    /\ \E p \in PollIds :
          /\ Cardinality(polls[p].hasVoted) = 2
          /\ Plain(p, 0) = 1
          /\ Plain(p, 1) = 1

\* C8: while a poll is active nobody but the contract is authorized to
\* decrypt any of its current counters.
C8_TallyConfidential ==
    \A p \in PollIds :
        polls[p].isActive
        => \A i \in OptionIdx :
              i < Len(polls[p].options)
              => polls[p].encryptedVoteCounts[i].acl \subseteq {ContractAddr}

\* C9: once endPoll has succeeded for a poll, every vote on it fails and
\* its hasVoted set and counters never change again.
C9_NoVoteAfterEnd ==
    [][ \A p \in PollIds :
          PollEnded(p)
          => /\ polls'[p].hasVoted = polls[p].hasVoted
             /\ polls'[p].encryptedVoteCounts = polls[p].encryptedVoteCounts
             /\ \A s \in Accounts, k \in 0..MaxOptions, ok \in BOOLEAN :
                   ( /\ lastCall'.op = "vote"
                     /\ lastCall'.sender = s
                     /\ vote(s, p, k, ok) )
                   => lastCall'.result # "ok" ]_vars

\* C9 witness: a vote was rejected on a poll that had been voted on, ended
\* and then finalized.
C9_Witness ==
    /\ lastCall.op = "vote"
    /\ lastCall.result # "ok"
    /\ \E p \in PollIds :
          /\ PollEnded(p)
          /\ polls[p].finalized
          /\ polls[p].hasVoted # {}

\* C10: a poll that has not been finalized has at most one pending request
\* id mapped to it.
C10_OneLiveRequest ==
    \A p \in PollIds :
        ~polls[p].finalized
        => Cardinality({r \in RequestIds : Issued(r) /\ requestToPoll[r] = p}) <= 1


PollCreated(p) == \E a \in Accounts :
    [name |-> "PollCreated", pollId |-> p, arg |-> a] \in events

\* the count vectors a callback for request r may carry: forged ones and
\* the oracle's decryption of the request
DeliveredCounts(r) == ForgedCounts \cup {oracleRequests[r]}

AllBlobs(r) == Blobs \cup {EncodePacked(oracleRequests[r])}

\* C11: a successful decryptionCallback removes the entry of its request id
\* from the pending-request table (the entry reads back as the default 0).
C11_RequestConsumed ==
    [][ \A s \in Callers, r \in RequestIds :
          ( /\ lastCall' = Call("decryptionCallback", s, "ok")
            /\ Issued(r)
            /\ \E b \in AllBlobs(r) : decryptionCallback(s, r, b) )
          => requestToPoll'[r] = 0 ]_vars

\* C12: a decryptionCallback sent by anyone but the oracle changes no
\* poll's finalized flag and no published counts.
C12_OnlyOracleFinalizes ==
    [][ \A s \in Accounts, r \in RequestIds :
          ( /\ lastCall'.op = "decryptionCallback"
            /\ lastCall'.sender = s
            /\ \E b \in Blobs : decryptionCallback(s, r, b) )
          => /\ \A p \in PollIds : polls'[p].finalized = polls[p].finalized
             /\ clearVoteCounts' = clearVoteCounts ]_vars

\* C13: for an ended, not yet finalized poll with an issued request, a
\* callback whose blob is the packed encoding of len(options) values
\* succeeds and sets finalized; afterwards isFinalized is true and
\* getClearVoteCounts returns exactly those values in option order.
C13_CallbackPublishes ==
    [][ \A s \in Callers, r \in RequestIds :
          ( /\ lastCall'.op = "decryptionCallback"
            /\ lastCall'.sender = s
            /\ Issued(r)
            /\ PollEnded(requestToPoll[r])
            /\ ~polls[requestToPoll[r]].finalized )
          => \A vals \in DeliveredCounts(r) :
                ( /\ Len(vals) = Len(polls[requestToPoll[r]].options)
                  /\ decryptionCallback(s, r, EncodePacked(vals)) )
                => /\ lastCall'.result = "ok"
                   /\ isFinalized(requestToPoll[r])'
                   /\ getClearVoteCounts(requestToPoll[r])' =
                          [result |-> "ok", value |-> vals] ]_vars

\* C13 witness: the oracle's callback finalized an ended poll on which two
\* votes had been cast, and the poll publishes [1, 1].
C13_Witness ==
    /\ lastCall = Call("decryptionCallback", OracleAddr, "ok")
    /\ \E p \in PollIds :
          /\ PollEnded(p)
          /\ isFinalized(p)
          /\ getClearVoteCounts(p) = [result |-> "ok", value |-> <<1, 1>>]

\* C14: on an ended, not yet finalized poll a callback whose blob is shorter
\* than 4 * len(options) bytes fails with "Invalid cleartexts length",
\* leaves finalized false and the published counts empty, and a well-formed
\* callback for the same request is still accepted afterwards.
C14_ShortBlobRejected ==
    [][ \A s \in Callers, r \in RequestIds :
          ( /\ lastCall'.op = "decryptionCallback"
            /\ lastCall'.sender = s
            /\ ~polls[requestToPoll[r]].finalized
            /\ ~polls[requestToPoll[r]].isActive )
          => \A b \in AllBlobs(r) :
                ( /\ Len(b) < 4 * Len(polls[requestToPoll[r]].options)
                  /\ decryptionCallback(s, r, b) )
                => /\ lastCall'.result = "Invalid cleartexts length"
                   /\ ~polls'[requestToPoll[r]].finalized
                   /\ clearVoteCounts' = clearVoteCounts
                   /\ polls' = polls
                   /\ \A vals \in ForgedCounts :
                         Len(vals) = Len(polls[requestToPoll[r]].options)
                         => decryptionCallbackCheck(r, EncodePacked(vals))'
                                = "ok" ]_vars

\* C14 witness: a callback for an ended poll with two options was rejected
\* for its length and the poll is still not finalized, nothing published.
C14_Witness ==
    /\ lastCall.op = "decryptionCallback"
    /\ lastCall.result = "Invalid cleartexts length"
    /\ \E p \in PollIds :
          /\ PollEnded(p)
          /\ ~polls[p].finalized
          /\ clearVoteCounts[p] = <<>>
          /\ \E r \in RequestIds : Issued(r) /\ requestToPoll[r] = p


\* C15: requestFinalize fails with "Poll still active" whenever isActive is
\* true and with "Already finalized" whenever finalized is true; on a
\* created, ended, not finalized poll it succeeds, records the new request
\* id for the poll and changes no poll field.
C15_RequestFinalizeGuards ==
    /\ [](\A p \in PollIds :
            /\ polls[p].isActive
                  => requestFinalizeCheck(p) = "Poll still active"
            /\ polls[p].finalized
                  => requestFinalizeCheck(p) = "Already finalized"
            /\ (PollCreated(p) /\ ~polls[p].isActive /\ ~polls[p].finalized)
                  => requestFinalizeCheck(p) = "ok")
    /\ [][ \A p \in PollIds :
             ( /\ lastCall' = Call("requestFinalize", ZeroAddr, "ok")
               /\ requestFinalize(p) )
             => /\ requestToPoll'[counterRequest] = p
                /\ polls' = polls ]_vars

\* C16: endPoll succeeds exactly when the poll is active and the time is at
\* or past expireAt, and then only clears isActive; on an active poll before
\* expireAt it fails with "Poll has not expired yet", on an inactive poll
\* with "Poll does not exist or already ended", changing nothing.
C16_EndPoll ==
    [][ \A p \in PollIds :
          (lastCall'.op = "endPoll" /\ endPoll(p))
          => /\ (lastCall'.result = "ok")
                    <=> (polls[p].isActive /\ now >= polls[p].expireAt)
             /\ lastCall'.result = "ok"
                    => polls' = [polls EXCEPT ![p].isActive = FALSE]
             /\ (polls[p].isActive /\ now < polls[p].expireAt)
                    => /\ lastCall'.result = "Poll has not expired yet"
                       /\ polls' = polls
             /\ ~polls[p].isActive
                    => /\ lastCall'.result
                              = "Poll does not exist or already ended"
                       /\ polls' = polls
             /\ UNCHANGED <<pollCount, clearVoteCounts, requestToPoll>> ]_vars

\* C16 witness: endPoll was rejected on a poll that an earlier endPoll had
\* ended.
C16_Witness ==
    /\ lastCall.op = "endPoll"
    /\ lastCall.result = "Poll does not exist or already ended"
    /\ \E p \in PollIds : PollEnded(p) /\ ~polls[p].isActive

\* C17: isActive is one-way: a poll is active in the state its creation
\* produces, a created poll that is inactive never becomes active again,
\* and isActive turns false only in the poll's first successful endPoll.
C17_ActiveOneWay ==
    [][ \A p \in PollIds :
          /\ (~PollCreated(p) /\ PollCreated(p)') => polls'[p].isActive
          /\ (PollCreated(p) /\ ~polls[p].isActive) => ~polls'[p].isActive
          /\ (polls[p].isActive /\ ~polls'[p].isActive)
                => /\ ~PollEnded(p)
                   /\ PollEnded(p)'
                   /\ lastCall' = Call("endPoll", ZeroAddr, "ok") ]_vars

\* C17 witness: a poll was created, ended and later finalized, and is
\* still inactive when a further requestFinalize is rejected.
C17_Witness ==
    \E p \in PollIds :
        /\ PollCreated(p)
        /\ PollEnded(p)
        /\ ~polls[p].isActive
        /\ polls[p].finalized
        /\ lastCall = Call("requestFinalize", ZeroAddr, "Already finalized")

\* C18: a created poll that has expired but was not ended is still active,
\* requestFinalize on it fails with "Poll still active" and every vote on
\* it fails with "Poll has expired"; requestFinalize is accepted for a
\* created poll only after a successful endPoll; the clock advancing
\* changes no poll.
C18_ExpiryDoesNotEnd ==
    /\ [](\A p \in PollIds :
            (PollCreated(p) /\ ~PollEnded(p) /\ now >= polls[p].expireAt)
            => /\ polls[p].isActive
               /\ requestFinalizeCheck(p) = "Poll still active"
               /\ \A s \in Accounts, ok \in BOOLEAN :
                     voteCheck(s, p, ok) = "Poll has expired")
    /\ [](\A p \in PollIds :
            (PollCreated(p) /\ requestFinalizeCheck(p) = "ok")
            => PollEnded(p))
    /\ [][now' # now => polls' = polls]_vars

\* C18 witness: requestFinalize was rejected with "Poll still active" on a
\* created poll past its expiry that nobody ended.
C18_Witness ==
    /\ lastCall.op = "requestFinalize"
    /\ lastCall.result = "Poll still active"
    /\ \E p \in PollIds :
          /\ PollCreated(p)
          /\ ~PollEnded(p)
          /\ polls[p].isActive
          /\ now > polls[p].expireAt

\* C19: on a created poll that was not ended, a vote at or after expireAt
\* fails with "Poll has expired" and changes neither hasVoted nor any
\* counter.
C19_VoteAfterExpiry ==
    [][ \A s \in Accounts, p \in PollIds :
          ( /\ lastCall'.op = "vote"
            /\ lastCall'.sender = s
            /\ PollCreated(p)
            /\ ~PollEnded(p)
            /\ now >= polls[p].expireAt
            /\ \E k \in 0..MaxOptions, ok \in BOOLEAN : vote(s, p, k, ok) )
          => /\ lastCall'.result = "Poll has expired"
             /\ polls'[p].hasVoted = polls[p].hasVoted
             /\ polls'[p].encryptedVoteCounts = polls[p].encryptedVoteCounts
          ]_vars

\* C19 witness: a first-time voter was rejected with "Poll has expired" in
\* the very second the poll expired, a vote having been counted before.
C19_Witness ==
    /\ lastCall.op = "vote"
    /\ lastCall.result = "Poll has expired"
    /\ \E p \in PollIds :
          /\ PollCreated(p)
          /\ ~PollEnded(p)
          /\ now = polls[p].expireAt
          /\ lastCall.sender \notin polls[p].hasVoted
          /\ polls[p].hasVoted # {}

\* C20: a vote on a poll id that was never created, or on a poll that is
\* not active, fails with "Poll does not exist or is not active", records
\* no voter and changes no counter of that id.
C20_VoteInactive ==
    [][ \A s \in Accounts, p \in PollIds :
          ( /\ lastCall'.op = "vote"
            /\ lastCall'.sender = s
            /\ (~PollCreated(p) \/ ~polls[p].isActive)
            /\ \E k \in 0..MaxOptions, ok \in BOOLEAN : vote(s, p, k, ok) )
          => /\ lastCall'.result = "Poll does not exist or is not active"
             /\ polls'[p].hasVoted = polls[p].hasVoted
             /\ polls'[p].encryptedVoteCounts = polls[p].encryptedVoteCounts
          ]_vars

\* C20 witness: a vote was rejected as inactive while no poll existed.
C20_Witness ==
    /\ lastCall.op = "vote"
    /\ lastCall.result = "Poll does not exist or is not active"
    /\ pollCount = 0
    /\ \A p \in PollIds : polls[p].hasVoted = {}

\* C21: createPoll fails with "Title cannot be empty" when the title is
\* empty, with "Must have at least 2 options" when (the title being given)
\* fewer than 2 options are submitted, with "Expiration must be in the
\* future" when (title and options being valid) expireAt <= now; every
\* failing createPoll leaves pollCount, every poll and the events as they
\* were, so no poll is stored.
C21_CreatePollRejects ==
    /\ [](\A t \in Titles, o \in OptionLists, e \in ExpiryTimes :
            /\ t = "" => createPollCheck(t, o, e) = "Title cannot be empty"
            /\ (t # "" /\ Len(o) < 2)
                  => createPollCheck(t, o, e) = "Must have at least 2 options"
            /\ (t # "" /\ Len(o) >= 2 /\ e <= now)
                  => createPollCheck(t, o, e)
                         = "Expiration must be in the future"
            /\ (t = "" \/ Len(o) < 2 \/ e <= now)
                  <=> createPollCheck(t, o, e) # "ok")
    /\ [][ (lastCall'.op = "createPoll" /\ lastCall'.result # "ok")
             => UNCHANGED <<pollCount, polls, events, clearVoteCounts>>
         ]_vars
    /\ [][ \A p \in PollIds :
             (~PollCreated(p) /\ PollCreated(p)')
             => /\ polls'[p].title # ""
                /\ Len(polls'[p].options) >= 2
                /\ polls'[p].expireAt > now ]_vars

\* C21 witness: a createPoll was rejected for its expiry while a poll that
\* has a vote exists, and no second poll is stored.
C21_Witness ==
    /\ lastCall.op = "createPoll"
    /\ lastCall.result = "Expiration must be in the future"
    /\ pollCount = 1
    /\ polls[0].hasVoted # {}
    /\ polls[1] = EmptyPoll

\* C22: a successful createPoll followed immediately by getPoll of the
\* returned id returns the submitted title, description, options and
\* expireAt, the caller as creator and isActive = true; the poll has
\* finalized = false and the plaintext of each of its counters is 0.
C22_CreateThenGet ==
    [][ \A s \in Accounts, t \in Titles, d \in Descriptions,
           o \in OptionLists, e \in ExpiryTimes, id \in PollIds :
          ( /\ lastCall' = Call("createPoll", s, "ok")
            /\ id = pollCount
            /\ createPoll(s, t, d, o, e) )
          => /\ getPoll(id)' =
                    [result |-> "ok", value |-> <<t, d, o, e, s, TRUE>>]
             /\ ~polls'[id].finalized
             /\ \A i \in OptionIdx :
                   i < Len(o) => polls'[id].encryptedVoteCounts[i].val = 0
        ]_vars

\* the PollCreated events emitted so far, one per successful createPoll
CreatedEvents == {e \in events : e.name = "PollCreated"}

\* C23: poll ids are handed out in sequence from 0: getPollCount equals the
\* number of successful createPoll calls, the created ids are exactly those
\* below pollCount, the n-th successful createPoll creates id n-1,
\* pollCount never decreases and changes only in a successful createPoll,
\* by exactly one.
C23_SequentialIds ==
    /\ [](/\ getPollCount = Cardinality(CreatedEvents)
          /\ \A p \in PollIds : PollCreated(p) <=> p < pollCount)
    /\ [][ /\ pollCount' >= pollCount
           /\ pollCount' # pollCount
                 => /\ pollCount' = pollCount + 1
                    /\ lastCall'.op = "createPoll"
                    /\ lastCall'.result = "ok"
           /\ \A e \in CreatedEvents' \ CreatedEvents :
                 /\ e.pollId = Cardinality(CreatedEvents)
                 /\ e.pollId = pollCount
                 /\ pollCount' = pollCount + 1
           /\ lastCall'.op # "createPoll" => pollCount' = pollCount ]_vars

\* C23 witness: the second successful createPoll created id 1 after a vote
\* had been cast on poll 0, and getPollCount is 2.
C23_Witness ==
    /\ lastCall.op = "createPoll"
    /\ lastCall.result = "ok"
    /\ getPollCount = 2
    /\ PollCreated(0)
    /\ PollCreated(1)
    /\ polls[0].hasVoted # {}
    /\ polls[1].hasVoted = {}

\* C24: getPoll and getEncryptedVoteCount succeed only for a poll whose
\* stored isActive is true: they fail with "Poll does not exist" for an id
\* that was never created and, once endPoll has succeeded for a poll, in
\* every later state, finalization included.
C24_GetPollOnlyActive ==
    \A p \in PollIds :
        /\ getPoll(p).result = "ok" => polls[p].isActive
        /\ \A i \in OptionIdx :
              getEncryptedVoteCount(p, i).result = "ok" => polls[p].isActive
        /\ (~PollCreated(p) \/ PollEnded(p))
              => /\ getPoll(p).result = "Poll does not exist"
                 /\ \A i \in OptionIdx :
                       getEncryptedVoteCount(p, i).result
                           = "Poll does not exist"

\* C24 witness: a poll that was voted on, ended and finalized by the oracle
\* is not readable through getPoll.
C24_Witness ==
    /\ lastCall = Call("decryptionCallback", OracleAddr, "ok")
    /\ \E p \in PollIds :
          /\ PollEnded(p)
          /\ polls[p].finalized
          /\ polls[p].hasVoted # {}
          /\ getPoll(p).result = "Poll does not exist"

\* C25: getClearVoteCounts fails with "Results not available" in every
\* state where the poll's finalized flag is false: before creation, while
\* active, after the end and while a finalize request is pending.
C25_ResultsNotAvailable ==
    \A p \in PollIds :
        /\ ~isFinalized(p)
              => getClearVoteCounts(p)
                     = [result |-> "Results not available", value |-> <<>>]
        /\ getClearVoteCounts(p).result = "ok" => polls[p].finalized

\* C25 witness: a poll that was voted on and ended has a pending finalize
\* request, is not finalized, and getClearVoteCounts fails for it.
C25_Witness ==
    \E p \in PollIds, r \in RequestIds :
        /\ PollEnded(p)
        /\ polls[p].hasVoted # {}
        /\ Issued(r)
        /\ requestToPoll[r] = p
        /\ ~isFinalized(p)
        /\ lastCall = Call("requestFinalize", ZeroAddr, "ok")
        /\ getClearVoteCounts(p).result = "Results not available"

\* C26: a failing createPoll, vote, endPoll, requestFinalize or
\* decryptionCallback leaves pollCount, the pending-request table, the
\* published counts and every field of every poll as they were.
C26_FailureAtomic ==
    [][ (lastCall'.op # "none" /\ lastCall'.result # "ok")
          => UNCHANGED <<pollCount, requestToPoll, polls, clearVoteCounts,
                         counterRequest, events>> ]_vars

\* C26 witness: a vote with an invalid proof was rejected on an open poll
\* that already has a vote, the sender not being recorded as a voter.
C26_Witness ==
    /\ lastCall.op = "vote"
    /\ lastCall.result = "Invalid proof"
    /\ \E p \in PollIds :
          /\ polls[p].isActive
          /\ now < polls[p].expireAt
          /\ polls[p].hasVoted # {}
          /\ lastCall.sender \notin polls[p].hasVoted

\* C28: what a vote shows does not depend on the plaintext of the option
\* index: for the same sender, poll and proof, any two option indexes give
\* the same success or failure, the same hasVoted, the same events, the
\* same rewritten counter slots and the same authorizations; and what
\* every vote step shows is such a view, computed without its own index.
C28_VoteIndependentOfChoice ==
    /\ [](\A s \in Accounts, p \in PollIds, ok \in BOOLEAN :
            \A k1, k2 \in 0..MaxOptions :
               voteView(s, p, k1, ok) = voteView(s, p, k2, ok))
    /\ [][ (lastCall'.op = "vote" /\ now' = now)
             => \E p \in PollIds, ok \in BOOLEAN :
                   /\ lastCall'.result
                          = voteView(lastCall'.sender, p, 0, ok).result
                   /\ polls'[p].hasVoted
                          = voteView(lastCall'.sender, p, 0, ok).hasVoted
                   /\ events' = voteView(lastCall'.sender, p, 0, ok).events
                   /\ \A i \in OptionIdx :
                         /\ polls'[p].encryptedVoteCounts[i].acl
                                = voteView(lastCall'.sender, p, 0, ok).acl[i]
                         /\ (polls'[p].encryptedVoteCounts[i]
                                 # polls[p].encryptedVoteCounts[i])
                               => i \in voteView(lastCall'.sender, p, 0,
                                                 ok).rewritten
                   /\ \A q \in PollIds \ {p} : polls'[q] = polls[q]
          ]_vars

\* C28 witness: a second voter's ballot was accepted on a poll whose two
\* counters now differ, both counters being authorized to that voter.
C28_Witness ==
    /\ lastCall.op = "vote"
    /\ lastCall.result = "ok"
    /\ \E p \in PollIds :
          /\ Cardinality(polls[p].hasVoted) = 2
          /\ Plain(p, 0) # Plain(p, 1)
          /\ \A i \in OptionIdx :
                lastCall.sender \in polls[p].encryptedVoteCounts[i].acl

\* the voters of poll p whose ballot carried option index i
VotersFor(p, i) == {v \in polls[p].hasVoted : ballots[p][v] = i}

\* C29: votes of distinct voters on a poll add up whatever their order:
\* the addresses with a recorded ballot are the poll's voters, and on a
\* created poll all of whose ballots are in range each counter decrypts to
\* the number of voters who chose its option.
C29_VotesAccumulate ==
    \A p \in PollIds :
        /\ \A v \in Accounts :
              ballots[p][v] # NoBallot <=> v \in polls[p].hasVoted
        /\ ( /\ PollCreated(p)
             /\ \A v \in polls[p].hasVoted :
                   ballots[p][v] < Len(polls[p].options) )
              => \A i \in OptionIdx :
                    i < Len(polls[p].options)
                    => Plain(p, i) = Cardinality(VotersFor(p, i))

\* C29 witness: on one poll the first account chose option 0 and the
\* second option 1, the second account having voted first, and the
\* counters decrypt to [1, 1].
C29_Witness ==
    \E p \in PollIds :
        /\ polls[p].hasVoted = Accounts
        /\ ballots[p][1] = 0
        /\ ballots[p][2] = 1
        /\ Plain(p, 0) = 1
        /\ Plain(p, 1) = 1
        /\ lastCall = Call("vote", 1, "ok")

\* request r is pending for poll p, which was ended and is not finalized
Pending(r, p) ==
    /\ Issued(r)
    /\ requestToPoll[r] = p
    /\ PollEnded(p)
    /\ ~polls[p].finalized

\* the blob the oracle delivers for request r
OracleBlob(r) == EncodePacked(oracleRequests[r])

FinalizeRequested(p) ==
    \E r \in RequestIds :
        [name |-> "FinalizeRequested", pollId |-> p, arg |-> r] \in events

\* C31: a poll goes Active -> Ended -> FinalizeRequested -> Finalized: its
\* finalized flag turns true only in a state where the poll was created,
\* endPoll succeeded for it and a requestFinalize for it succeeded before.
C31_LifecycleOrder ==
    [][ \A p \in PollIds :
          (~polls[p].finalized /\ polls'[p].finalized)
          => /\ PollCreated(p)
             /\ PollEnded(p)
             /\ FinalizeRequested(p) ]_vars

\* C32: the plaintext of a counter of a poll never decreases, and it
\* changes only in a successful vote on that poll, by the address the
\* vote adds to the poll's hasVoted.
C32_CountersMonotone ==
    [][ \A p \in PollIds, i \in OptionIdx :
          /\ polls'[p].encryptedVoteCounts[i].val >= Plain(p, i)
          /\ polls'[p].encryptedVoteCounts[i].val # Plain(p, i)
                => /\ lastCall'.op = "vote"
                   /\ lastCall'.result = "ok"
                   /\ polls'[p].hasVoted
                          = polls[p].hasVoted \cup {lastCall'.sender}
                   /\ lastCall'.sender \notin polls[p].hasVoted ]_vars

\* C32 witness: poll 0 keeps a counter at 2 after it was ended and
\* finalized and after poll 1 was created and voted on.
C32_Witness ==
    /\ polls[0].finalized
    /\ PollEnded(0)
    /\ \E i \in OptionIdx : Plain(0, i) = 2
    /\ PollCreated(1)
    /\ polls[1].hasVoted # {}

\* C35: for every id at or above pollCount, finalized is false and no
\* counts are published, requestFinalize of the id fails and so does every
\* decryptionCallback whose request id maps to it.
C35_UncreatedUntouched ==
    \A p \in PollIds :
        p >= pollCount
        => /\ ~polls[p].finalized
           /\ clearVoteCounts[p] = <<>>
           /\ requestFinalizeCheck(p) # "ok"
           /\ \A r \in RequestIds :
                 requestToPoll[r] = p
                 => \A b \in AllBlobs(r) : decryptionCallbackCheck(r, b) # "ok"

\* C36: in every state, for each poll the plaintexts of its counters add
\* up to the number of addresses in its hasVoted.
C36_EveryVoteCounted ==
    \A p \in PollIds :
        SumSeq([i \in 1..MaxOptions |-> Plain(p, i - 1)])
            = Cardinality(polls[p].hasVoted)

\* C37: the error of a vote follows the order inactive, expired, already
\* voted: on an inactive poll it is "Poll does not exist or is not active",
\* on an active poll at or after expireAt "Poll has expired", also for an
\* address that already voted, and "Already voted" only on an active poll
\* before expireAt.
C37_VoteErrorPrecedence ==
    \A s \in Accounts, p \in PollIds, ok \in BOOLEAN :
        /\ ~polls[p].isActive
              => voteCheck(s, p, ok) = "Poll does not exist or is not active"
        /\ (polls[p].isActive /\ now >= polls[p].expireAt)
              => voteCheck(s, p, ok) = "Poll has expired"
        /\ (polls[p].isActive /\ now < polls[p].expireAt
                /\ s \in polls[p].hasVoted)
              => voteCheck(s, p, ok) = "Already voted"
        /\ (s \in polls[p].hasVoted /\ PollCreated(p) /\ ~PollEnded(p)
                /\ now >= polls[p].expireAt)
              => voteCheck(s, p, ok) = "Poll has expired"
        /\ (s \in polls[p].hasVoted /\ PollEnded(p))
              => voteCheck(s, p, ok) = "Poll does not exist or is not active"

\* C37 witness: an address that had voted voted again at or after expireAt
\* on the poll, not yet ended, and was told "Poll has expired".
C37_Witness ==
    /\ lastCall.op = "vote"
    /\ lastCall.result = "Poll has expired"
    /\ \E p \in PollIds :
          /\ PollCreated(p)
          /\ ~PollEnded(p)
          /\ polls[p].isActive
          /\ now >= polls[p].expireAt
          /\ lastCall.sender \in polls[p].hasVoted

\* ================================================================ front end
\* The web front end (ui/src): the handlers of the pages, each one atomic
\* step of a browser session.  The contract modelled above is the
\* deployment on the local Hardhat chain at CONTRACT_ADDRESSES[31337]; a
\* call the page sends to any other chain or address has an outcome the
\* sources do not determine, drawn as an input of the handler.

MsPerSecond      == 1000   \* Date.getTime() counts milliseconds
MinExpireSeconds == 300    \* "At least 5 minutes (300 seconds)"
LocalhostChain   == 31337
SepoliaChain     == 11155111

\* chainId undefined (the optional parameter left out)
NoChain == 0

\* provider.getBlock returned null
NoBlock == 0 - 1

\* contract.ts: CONTRACT_ADDRESSES
CONTRACT_ADDRESSES ==
    (LocalhostChain :> "0x5FbDB2315678afecb367f032d93F642f64180aa3")
    @@ (SepoliaChain :> "0x638A70A2901fD2e644EC3625B7674A25ceB33c59")

\* the chains a wallet may be connected to: the two configured ones and
\* one the application has no address for
ChainIds == {1, LocalhostChain, SepoliaChain}

\* the values of VITE_CONTRACT_ADDRESS at build time: unset, or an address
EnvAddresses == {"", "0xEnvConfiguredAddress"}

\* the wallet as a handler finds it: usable; not connected; connected
\* without a wallet client; no window.ethereum; accounts refused
WalletStates == {"ok", "disconnected", "noClient", "noProvider",
                 "unauthorized"}

\* what the form holds when it is submitted
FormTitles      == {"Poll", " "}
FormOptionLists == {<<"Yes", "No">>, <<"Yes", " ">>}
\* the chosen expiration and the client clock, in milliseconds
ExpireChoices   == {500, 300999, 301000, 302500, 304000}
ClientTimes     == {500, 302000}

\* String.prototype.trim on the strings of the form
trim(str) == IF str = " " THEN "" ELSE str

\* Math.floor(ms / 1000)
floorSeconds(ms) == ms \div MsPerSecond

\* contract.ts getContractAddress(chainId)
getContractAddress(chainId) ==
    IF chainId # NoChain /\ chainId \in DOMAIN CONTRACT_ADDRESSES
    THEN CONTRACT_ADDRESSES[chainId]
    ELSE IF VITE_CONTRACT_ADDRESS # ""
    THEN VITE_CONTRACT_ADDRESS
    ELSE CONTRACT_ADDRESSES[LocalhostChain]

\* the call reaches the contract modelled here
Deployed(chainId, address) ==
    /\ chainId = LocalhostChain
    /\ address = CONTRACT_ADDRESSES[LocalhostChain]

\* SecretVoteBox.hasVoted(pollId, voter)
hasVoted(pollId, voter) == voter \in polls[pollId].hasVoted

\* contract.ts getAllPolls: the polls the page lists, by id; a poll whose
\* getPoll reverts is logged and left out
getAllPolls ==
    [ i \in { j \in 0..(getPollCount - 1) : getPoll(j).result = "ok" } |->
        LET poll == getPoll(i).value
        IN  [id |-> i, title |-> poll[1], description |-> poll[2],
             options |-> poll[3], expireAt |-> poll[4],
             creator |-> poll[5], isActive |-> poll[6]] ]

\* Index.tsx getPollStatus(poll) at client time dateNow
getPollStatus(poll, dateNow) ==
    IF poll.expireAt * MsPerSecond <= dateNow \/ ~poll.isActive
    THEN "ended" ELSE "active"

\* Index.tsx fetchPolls: finalizedByPoll and resultsByPoll after a refresh
\* at client time dateNow, for the polls getAllPolls lists (percentages
\* are computed from counts and total in the same statement)
fetchPolls(dateNow) ==
    [ i \in DOMAIN getAllPolls |->
        LET ended     == getPollStatus(getAllPolls[i], dateNow) = "ended"
            finalized == ended /\ isFinalized(i)
            counts    == IF finalized THEN getClearVoteCounts(i).value
                         ELSE <<>>
        IN  [finalized |-> finalized, loaded |-> finalized,
             counts |-> counts, total |-> SumSeq(counts)] ]

\* ---------------------------------------------------------------- fhevm.ts
MockInstance ==
    [kind |-> "mock", chainId |-> LocalhostChain,
     network |-> "http://localhost:8545"]

\* createInstance({...SepoliaConfig, network: localhost, chainId: 31337})
LocalRelayerInstance ==
    [kind |-> "relayer", chainId |-> LocalhostChain,
     network |-> "http://localhost:8545"]

\* createInstance({...SepoliaConfig, network: window.ethereum})
SepoliaInstance ==
    [kind |-> "relayer", chainId |-> SepoliaChain,
     network |-> "window.ethereum"]

\* initializeFHEVM(chainId): the result and the module variables after it.
\* ethereum: window.ethereum exists; walletChainId: the answer to
\* eth_chainId (NoChain when the request fails); metadata: the node answers
\* fhevm_relayer_metadata; created: createInstance succeeds.
initializeFHEVM(chainId, ethereum, walletChainId, metadata, created) ==
    LET currentChainId ==
            IF chainId # NoChain THEN chainId
            ELSE IF walletChainId # NoChain THEN walletChainId
            ELSE LocalhostChain
        config ==
            IF currentChainId = LocalhostChain THEN LocalRelayerInstance
            ELSE SepoliaInstance
    IN  IF fhevmInstance # NoInstance
        THEN [result |-> "ok", instance |-> fhevmInstance,
              sdk |-> isSDKInitialized, mock |-> isMockInstance]
        ELSE IF ~ethereum
        THEN [result |-> "window.ethereum is not available",
              instance |-> NoInstance,
              sdk |-> isSDKInitialized, mock |-> isMockInstance]
        ELSE IF currentChainId = LocalhostChain /\ metadata
        THEN [result |-> "ok", instance |-> MockInstance,
              sdk |-> TRUE, mock |-> TRUE]
        ELSE IF created
        THEN [result |-> "ok", instance |-> config,
              sdk |-> TRUE, mock |-> isMockInstance]
        ELSE [result |-> "FHEVM instance creation failed",
              instance |-> NoInstance,
              sdk |-> TRUE, mock |-> isMockInstance]

\* getFHEVMInstance(chainId)
getFHEVMInstance(chainId, ethereum, walletChainId, metadata, created) ==
    initializeFHEVM(chainId, ethereum, walletChainId, metadata, created)

\* the contract, the chain and the history variable
chainVars == <<now, pollCount, polls, clearVoteCounts, requestToPoll,
               counterRequest, oracleRequests, events, lastCall, ballots>>

\* ------------------------------------------------------- CreatePoll.tsx
\* the expiration handleSubmit adjusts with no margin over the minimum
adjustExpire_NoMargin(expireAt, block, dateNow) ==
    LET currentBlockTimestamp ==
            IF block # NoBlock THEN block * MsPerSecond ELSE dateNow
        expireTimestamp    == floorSeconds(expireAt)
        minExpireTimestamp ==
            floorSeconds(currentBlockTimestamp) + MinExpireSeconds
    IN  IF expireTimestamp <= minExpireTimestamp
        THEN minExpireTimestamp * MsPerSecond
        ELSE expireAt

\* handleSubmit, "Validate and adjust expiration time": the date handed to
\* createPoll, in milliseconds
adjustExpire(expireAt, block, dateNow) ==
    LET currentBlockTimestamp ==
            IF block # NoBlock THEN block * MsPerSecond ELSE dateNow
        expireTimestamp    == floorSeconds(expireAt)
        minExpireTimestamp ==
            floorSeconds(currentBlockTimestamp) + MinExpireSeconds
    IN  IF expireTimestamp <= minExpireTimestamp
        THEN (minExpireTimestamp + 1) * MsPerSecond
        ELSE expireAt

\* what handleSubmit leaves behind when it returns before any request
SubmitStopped(chainId, expireAt, dateNow, toast) ==
    /\ uiCall' = [op |-> "handleSubmit", chainId |-> chainId,
                  toast |-> toast, called |-> FALSE, sent |-> FALSE,
                  chosen |-> expireAt, dateNow |-> dateNow]
    /\ UNCHANGED chainVars

\* CreatePoll.tsx handleSubmit with the form (title, description, options,
\* expireAt) of the account address on chain chainId; block is the latest
\* block of that chain, accepted the answer of a chain not modelled here
\* to estimateGas
handleSubmit(wallet, address, chainId, title, description, options, expireAt, dateNow, block, accepted) ==
    LET contractAddress == getContractAddress(chainId)
        filledOptions   == SelectSeq(options, LAMBDA opt : trim(opt) # "")
        expireDate      == adjustExpire(expireAt, block, dateNow)
        \* contract.ts createPoll
        expireTimestamp == floorSeconds(expireDate)
        estimate ==
            IF Deployed(chainId, contractAddress)
            THEN createPollCheck(trim(title), filledOptions,
                                 expireTimestamp) = "ok"
            ELSE accepted
        called(toast, sent) ==
            uiCall' = [op |-> "handleSubmit", chainId |-> chainId,
                       toast |-> toast, called |-> TRUE, sent |-> sent,
                       chosen |-> expireAt, dateNow |-> dateNow,
                       to |-> contractAddress, block |-> block,
                       expireAt |-> expireTimestamp]
    IN  /\ UNCHANGED VITE_CONTRACT_ADDRESS
        /\ IF wallet \in {"disconnected", "noClient"}
           THEN SubmitStopped(chainId, expireAt, dateNow,
                              "Wallet not connected")
           ELSE IF contractAddress = ""
           THEN SubmitStopped(chainId, expireAt, dateNow,
                              "Contract not deployed")
           ELSE IF Len(filledOptions) < 2
           THEN SubmitStopped(chainId, expireAt, dateNow,
                              "Error")
           ELSE IF wallet \in {"noProvider", "unauthorized"}
           THEN SubmitStopped(chainId, expireAt, dateNow,
                              "Error creating poll")
           ELSE IF expireAt <= dateNow
           THEN SubmitStopped(chainId, expireAt, dateNow,
                              "Invalid expiration time")
           ELSE IF ~estimate
           THEN /\ called("Error creating poll", FALSE)
                /\ UNCHANGED chainVars
           ELSE IF Deployed(chainId, contractAddress)
           THEN /\ called("Poll created successfully!", TRUE)
                /\ pollCount < MaxPolls
                /\ createPoll(address, trim(title), trim(description),
                              filledOptions, expireTimestamp)
                /\ UNCHANGED ballots
           ELSE /\ called("Transaction submitted", TRUE)
                /\ UNCHANGED chainVars

\* ------------------------------------------------------------- Index.tsx
\* the session variables a handler leaves alone unless it reaches fhevm.ts
uiVarsKept == <<VITE_CONTRACT_ADDRESS, fhevmInstance, isSDKInitialized,
                isMockInstance>>

\* what handleVote leaves behind when it returns before castVote
VoteStopped(chainId, toast) ==
    /\ uiCall' = [op |-> "handleVote", chainId |-> chainId,
                  toast |-> toast, called |-> FALSE, sent |-> FALSE]
    /\ UNCHANGED chainVars

\* Index.tsx handleVote(pollId, optionIndex) of the account address on
\* chain chainId.  listed: the page's list holds the poll (on a chain not
\* modelled here: holds it as ended); read: the answer
\* of a chain not modelled here to hasVoted ("true", "false", "throws");
\* metadata, created: as for initializeFHEVM; encrypted: the outcome of
\* encryptOptionIndex ("valid", "invalid" for a proof the contract
\* rejects, "throws"); accepted: the answer of a chain not modelled here
\* to estimateGas.
handleVote(wallet, address, chainId, pollId, optionIndex, listed, dateNow, read, metadata, created, encrypted, accepted) ==
    LET contractAddress == getContractAddress(chainId)
        ended ==
            IF Deployed(chainId, contractAddress)
            THEN /\ listed
                 /\ pollId \in DOMAIN getAllPolls
                 /\ getPollStatus(getAllPolls[pollId], dateNow) = "ended"
            ELSE listed
        hasVotedResult ==
            IF Deployed(chainId, contractAddress)
            THEN IF hasVoted(pollId, address) THEN "true" ELSE "false"
            ELSE read
        fhevm == getFHEVMInstance(chainId, TRUE, chainId, metadata, created)
        keep  == UNCHANGED uiVarsKept
        init  == /\ fhevmInstance' = fhevm.instance
                 /\ isSDKInitialized' = fhevm.sdk
                 /\ isMockInstance' = fhevm.mock
                 /\ UNCHANGED VITE_CONTRACT_ADDRESS
        called(toast, sent) ==
            uiCall' = [op |-> "handleVote", chainId |-> chainId,
                       toast |-> toast, called |-> TRUE, sent |-> sent,
                       to |-> contractAddress]
    IN  IF wallet = "disconnected"
        THEN keep /\ VoteStopped(chainId, "Wallet not connected")
        ELSE IF wallet = "noClient"
        THEN keep /\ VoteStopped(chainId, "Wallet not available")
        ELSE IF ended
        THEN keep /\ VoteStopped(chainId, "Poll ended")
        ELSE IF hasVotedResult = "true"
        THEN keep /\ VoteStopped(chainId, "Already voted")
        ELSE IF hasVotedResult = "throws"
        THEN keep /\ VoteStopped(chainId,
                                 "Unable to verify voting status")
        ELSE IF contractAddress = ""
        THEN keep /\ VoteStopped(chainId, "Contract not deployed")
        ELSE IF wallet \in {"noProvider", "unauthorized"}
        THEN keep /\ VoteStopped(chainId, "Error submitting vote")
        ELSE IF fhevm.result # "ok" \/ encrypted = "throws"
        THEN init /\ VoteStopped(chainId, "Error submitting vote")
        ELSE IF Deployed(chainId, contractAddress)
        THEN /\ init
             /\ called(IF voteCheck(address, pollId, encrypted = "valid")
                            = "ok"
                       THEN "Vote submitted successfully!"
                       ELSE "Error submitting vote", TRUE)
             /\ vote(address, pollId, optionIndex, encrypted = "valid")
             /\ UNCHANGED ballots
        ELSE /\ init
             /\ called(IF accepted THEN "Transaction submitted"
                       ELSE "Error submitting vote", accepted)
             /\ UNCHANGED chainVars

\* ------------------------------------------------ the browser session
InitUI ==
    /\ VITE_CONTRACT_ADDRESS \in EnvAddresses
    /\ fhevmInstance = NoInstance
    /\ isSDKInitialized = FALSE
    /\ isMockInstance = FALSE
    /\ uiCall = NoUICall
    /\ now = 0
    /\ pollCount = 0
    /\ polls = [p \in PollIds |-> EmptyPoll]
    /\ clearVoteCounts = [p \in PollIds |-> <<>>]
    /\ requestToPoll = [r \in RequestIds |-> 0]
    /\ counterRequest = 0
    /\ oracleRequests = [r \in RequestIds |-> <<>>]
    /\ events = {}
    /\ lastCall = NoCall
    /\ ballots = [p \in PollIds |-> [a \in Accounts |-> NoBallot]]

\* the latest block of the chain the wallet is on
LatestBlock(chainId) ==
    IF chainId = LocalhostChain THEN {now} ELSE {0, MaxTime}

\* the wallet and the account of the session; the account is read only
\* by a handler that finds the wallet usable
Sessions ==
    { w \in [wallet : WalletStates, address : Accounts] :
        w.wallet # "ok" => w.address = 1 }

\* the inputs initializeFHEVM reads only while no instance is cached
Uncached(values, unread) ==
    IF fhevmInstance = NoInstance THEN values ELSE {unread}

\* the create page on the modelled chain
SubmitLocal ==
    /\ \E w \in Sessions, title \in FormTitles,
          options \in FormOptionLists, expireAt \in ExpireChoices,
          dateNow \in ClientTimes :
            handleSubmit(w.wallet, w.address, LocalhostChain, title,
                         "desc", options, expireAt, dateNow, now, TRUE)
    /\ UNCHANGED <<fhevmInstance, isSDKInitialized, isMockInstance>>

\* the create page on a chain not modelled here, whose contract sees the
\* form only through estimateGas
SubmitRemote ==
    /\ \E wallet \in WalletStates, chainId \in ChainIds \ {LocalhostChain},
          options \in FormOptionLists, expireAt \in ExpireChoices,
          dateNow \in ClientTimes, accepted \in BOOLEAN :
            \E block \in LatestBlock(chainId) :
                handleSubmit(wallet, 1, chainId, "Poll", "desc", options,
                             expireAt, dateNow, block, accepted)
    /\ UNCHANGED <<fhevmInstance, isSDKInitialized, isMockInstance>>

NextCreatePage ==
    \/ SubmitLocal
    \/ SubmitRemote
    \/ Tick

SpecCreatePage == InitUI /\ [][NextCreatePage]_vars

\* the home page on the modelled chain: the account presses an option of
\* a poll the page lists
VoteLocal ==
    \E w \in Sessions, pollId \in DOMAIN getAllPolls,
       dateNow \in ClientTimes,
       encrypted \in {"valid", "invalid", "throws"},
       metadata \in Uncached(BOOLEAN, FALSE),
       created \in Uncached(BOOLEAN, FALSE) :
        \E optionIndex \in 0..(Len(getAllPolls[pollId].options) - 1) :
            handleVote(w.wallet, w.address, LocalhostChain, pollId,
                       optionIndex, TRUE, dateNow, "false", metadata,
                       created, encrypted, TRUE)

\* the answers of a chain not modelled here to one handleVote, up to the
\* first answer that stops the handler
RemoteAnswers ==
    { c \in [listed : BOOLEAN, read : {"true", "false", "throws"},
             encrypted : {"valid", "throws"}, accepted : BOOLEAN] :
        /\ (c.listed => c.read = "false")
        /\ (c.listed \/ c.read # "false" => c.encrypted = "valid")
        /\ (c.listed \/ c.read # "false" \/ c.encrypted = "throws"
              => c.accepted) }

\* the home page on a chain not modelled here
VoteRemote ==
    \E wallet \in WalletStates, chainId \in ChainIds \ {LocalhostChain},
       c \in RemoteAnswers,
       metadata \in Uncached(BOOLEAN, FALSE),
       created \in Uncached(BOOLEAN, FALSE) :
        handleVote(wallet, 1, chainId, 0, 0, c.listed, 0, c.read,
                   metadata, created, c.encrypted, c.accepted)

\* a caller of fhevm.ts asks for the instance
GetFHEVMInstance ==
    \E chainId \in ChainIds \cup {NoChain}, ethereum \in BOOLEAN,
       metadata \in Uncached(BOOLEAN, FALSE),
       created \in Uncached(BOOLEAN, FALSE) :
        \E walletChainId \in IF chainId = NoChain
                             THEN ChainIds \cup {NoChain} ELSE {chainId} :
            LET r == getFHEVMInstance(chainId, ethereum, walletChainId,
                                      metadata, created)
            IN  /\ fhevmInstance' = r.instance
                /\ isSDKInitialized' = r.sdk
                /\ isMockInstance' = r.mock
                /\ uiCall' = [op |-> "getFHEVMInstance",
                              chainId |-> chainId, result |-> r.result,
                              instance |-> r.instance]
                /\ UNCHANGED <<VITE_CONTRACT_ADDRESS, chainVars>>

NextHomePage ==
    \/ CreatePoll
    \/ VoteLocal
    \/ VoteRemote
    \/ GetFHEVMInstance
    \/ Tick

SpecHomePage == InitUI /\ [][NextHomePage]_vars

\* C33: every poll id below getPollCount is in the list of getAllPolls
\* whatever its lifecycle state, and for a poll that was ended and
\* finalized the home page loads the published counts.
C33_EndedPollsListed ==
    \A p \in PollIds :
        p < getPollCount
        => /\ p \in DOMAIN getAllPolls
           /\ (PollEnded(p) /\ isFinalized(p))
                => \A dateNow \in ClientTimes :
                     /\ fetchPolls(dateNow)[p].loaded
                     /\ fetchPolls(dateNow)[p].counts = clearVoteCounts[p]

ToastsBeforeAddress(op) ==
    IF op = "handleSubmit" THEN {"Wallet not connected"}
    ELSE {"Wallet not connected", "Wallet not available", "Poll ended",
          "Already voted", "Unable to verify voting status"}

\* C38: on a chain without an entry in CONTRACT_ADDRESSES, with
\* VITE_CONTRACT_ADDRESS unset, handleSubmit and handleVote call no
\* contract and, once the checks made before are passed, report
\* "Contract not deployed".
C38_UnknownChainRefused ==
    ( /\ uiCall.op \in {"handleSubmit", "handleVote"}
      /\ uiCall.chainId \notin DOMAIN CONTRACT_ADDRESSES
      /\ VITE_CONTRACT_ADDRESS = "" )
    => /\ ~uiCall.called
       /\ ~uiCall.sent
       /\ uiCall.toast \in
            {"Contract not deployed"} \cup ToastsBeforeAddress(uiCall.op)

\* C39: a successful getFHEVMInstance(chainId) for a chain of
\* CONTRACT_ADDRESSES returns an instance configured for that chain,
\* whatever chain the earlier calls of the session named.
C39_InstanceForCallChain ==
    ( /\ uiCall.op = "getFHEVMInstance"
      /\ uiCall.result = "ok"
      /\ uiCall.chainId \in DOMAIN CONTRACT_ADDRESSES )
    => uiCall.instance.chainId = uiCall.chainId

==============================================================================
